---------------------------- MODULE Spec2Model ----------------------------
(***************************************************************************)
(* Model of the OpenThings request proxy: the controller registry, the     *)
(* per-device pending tables, controller admission, the ping/pong ticker,  *)
(* response-frame decoding and the HTTP forwarder, all of                   *)
(* src/src/routes/forwarder.ts.                                             *)
(*                                                                          *)
(* Node runs every handler to completion on one thread, so each handler is  *)
(* one atomic action.  The only place a handler is split is the             *)
(* `await authPlugin.validateKey(deviceKey)` of the connection handler.     *)
(***************************************************************************)
EXTENDS Integers, Sequences, FiniteSets, TLC

\* ------------------------------------------------------------------ bounds

\* Number of controller sockets that ever connect.
NumSocks == 2
\* Number of HTTP requests that ever reach forwardRequest.
NumReqs == 2
\* Size of the request-id space the model draws from (0x10000 in the code).
IdSpace == 2

Socks == 1..NumSocks
Reqs == 1..NumReqs
\* One request more than the id space holds.
SatReqs == 1..(IdSpace + 1)
AllReqs == Reqs \cup SatReqs

\* ------------------------------------------------------------- wire bytes

CR == 13
LF == 10

\* "RES: " as bytes
ResPrefix == <<82, 69, 83, 58, 32>>

\* One lowercase hexadecimal digit of Number.toString(16).
HexDigit(d) == IF d < 10 THEN 48 + d ELSE 87 + d

\* Math.floor(Math.random() * 0x10000).toString(16).padStart(4, "0")
Hex4(n) ==
    << HexDigit((n \div 4096) % 16), HexDigit((n \div 256) % 16),
       HexDigit((n \div 16) % 16), HexDigit(n % 16) >>

\* The request ids forwardRequest can draw within the model's id space.
RequestIds == { Hex4(n) : n \in 0..(IdSpace - 1) }

RECURSIVE BitAnd(_, _)
\* JavaScript's a & b on non-negative integers.
BitAnd(a, b) ==
    IF a = 0 \/ b = 0 THEN 0
    ELSE (a % 2) * (b % 2) + 2 * BitAnd(a \div 2, b \div 2)

RECURSIVE Utf8From(_, _)
\* The while loop of isValidUTF8, from index i (1-based).
Utf8From(buf, i) ==
    LET len == Len(buf)
        b0 == buf[i]
    IN
    IF i > len THEN TRUE
    ELSE IF BitAnd(b0, 128) = 0 THEN Utf8From(buf, i + 1)
    ELSE IF BitAnd(b0, 224) = 192 THEN
        IF \/ i + 1 > len
           \/ BitAnd(buf[i + 1], 192) # 128
           \/ BitAnd(b0, 254) = 192
        THEN FALSE
        ELSE Utf8From(buf, i + 2)
    ELSE IF BitAnd(b0, 240) = 224 THEN
        IF \/ i + 2 > len
           \/ BitAnd(buf[i + 1], 192) # 128
           \/ BitAnd(buf[i + 2], 192) # 128
           \/ (b0 = 224 /\ BitAnd(buf[i + 1], 224) = 128)
           \/ (b0 = 237 /\ BitAnd(buf[i + 1], 224) = 160)
        THEN FALSE
        ELSE Utf8From(buf, i + 3)
    ELSE IF BitAnd(b0, 248) = 240 THEN
        IF \/ i + 3 > len
           \/ BitAnd(buf[i + 1], 192) # 128
           \/ BitAnd(buf[i + 2], 192) # 128
           \/ BitAnd(buf[i + 3], 192) # 128
           \/ (b0 = 240 /\ BitAnd(buf[i + 1], 240) = 128)
           \/ (b0 = 244 /\ buf[i + 1] > 143)
           \/ b0 > 244
        THEN FALSE
        ELSE Utf8From(buf, i + 4)
    ELSE FALSE

isValidUTF8(buf) == Utf8From(buf, 1)

\* [0-9a-f]
IsLowerHex(b) == (48 <= b /\ b <= 57) \/ (97 <= b /\ b <= 102)

\* message.match(/^RES: ([0-9a-f]{4})\r\n([\s\S]*)$/) is not null
Matches(message) ==
    /\ Len(message) >= 11
    /\ SubSeq(message, 1, 5) = ResPrefix
    /\ \A i \in 6..9 : IsLowerHex(message[i])
    /\ message[10] = CR
    /\ message[11] = LF

\* Mutant: the reply goes to the first id instead of the id it carries.
MutRequestKeyFirst(message) == Hex4(0)

\* match[1]
MatchRequestKey(message) == SubSeq(message, 6, 9)

\* match[2]
MatchBody(message) == SubSeq(message, 12, Len(message))

\* ------------------------------------------------------------------ state

\* Device keys the authentication plugin accepts (DEVICE_KEYS), and one it
\* does not.
ValidKeys == {"k1", "k2"}
InvalidKey == "kx"
\* What a controller connection presents: url.pathname and
\* url.searchParams.get("deviceKey"), "" standing for null or the empty string.
Connects ==
    { <<"/socket/v1", k>> : k \in {"k1", InvalidKey, ""} } \cup { <<"/other", "k1">> }
\* req.params.deviceKey of a forwarded request.
ForwardKeys == {"k1", ""}

\* "OK"
OkBody == <<79, 75>>

\* Bodies the sampled response frames carry.
Bodies == { OkBody }

\* A Map with no entries.
EmptyMap == [x \in {} |-> 0]

\* Map.prototype.has
Has(m, k) == k \in DOMAIN m

\* Map.prototype.set
MapSet(m, k, v) == [x \in (DOMAIN m) \cup {k} |-> IF x = k THEN v ELSE m[x]]

\* Map.prototype.delete
MapDelete(m, k) == [x \in (DOMAIN m) \ {k} |-> m[x]]

VARIABLES
    connectedControllers,  \* Map deviceKey -> socket
    pendingResponses,      \* Map deviceKey -> Map requestId -> HTTP request
    ws,                    \* per controller socket: handler position and fields
    http,                  \* per HTTP request: its response and close handler
    log                  \* the last line a handler logged

vars == <<connectedControllers, pendingResponses, ws, http, log>>

\* A log line: which statement wrote it, and the device key and request id
\* its text carries.
Line(line, deviceKey, rid) == [line |-> line, deviceKey |-> deviceKey, rid |-> rid]

NoLog == Line("none", "", <<>>)

Init ==
    /\ connectedControllers = EmptyMap
    /\ pendingResponses = EmptyMap
    /\ ws = [s \in Socks |->
               [pc |-> "new", deviceKey |-> "", isAlive |-> FALSE,
                interval |-> "none", readyState |-> "open",
                sent |-> <<>>, pingPending |-> FALSE]]
    /\ http = [h \in AllReqs |->
                 [pc |-> "new", deviceKey |-> "", requestId |-> <<>>,
                  status |-> 0, message |-> "", written |-> <<>>,
                  ended |-> FALSE, closed |-> FALSE]]
    /\ log = NoLog

\* ws.terminate(): destroys an open socket; its close event follows later.
Terminate(readyState) == IF readyState = "open" THEN "closing" ELSE readyState

\* ws.send("ERR: ..."); ws.terminate(); return;
Reject(s, deviceKey, text) ==
    /\ ws' = [ws EXCEPT ![s].pc = "rejected",
                        ![s].deviceKey = deviceKey,
                        ![s].sent = Append(@, [prefix |-> "ERR: ", text |-> text]),
                        ![s].readyState = Terminate(@)]
    /\ UNCHANGED <<connectedControllers, pendingResponses, http>>

\* Mutant: the registry check is missing.
MutAlreadyConnected(deviceKey) == FALSE

\* The registry check that guards admission.
AlreadyConnected(deviceKey) == Has(connectedControllers, deviceKey)

\* server.on("connection"), up to the await of validateKey.
Connection(s, pathname, deviceKey) ==
    /\ ws[s].pc = "new"
    /\ \A s0 \in Socks : s0 < s => ws[s0].pc # "new"  \* sockets numbered by arrival
    /\ log' = Line("connected", "", <<>>)
    /\ IF pathname # "/socket/v1"
       THEN Reject(s, "", "invalid path.")
       ELSE IF deviceKey = ""
       THEN Reject(s, deviceKey, "deviceKey was not properly specified.")
       ELSE IF AlreadyConnected(deviceKey)
       THEN Reject(s, deviceKey,
                   "A controller with this device key is already connected.")
       ELSE /\ ws' = [ws EXCEPT ![s].pc = "validating",
                                ![s].deviceKey = deviceKey]
            /\ UNCHANGED <<connectedControllers, pendingResponses, http>>

\* EnvironmentVariableAuthenticationPlugin.validateKey
validateKey(deviceKey) == deviceKey \in ValidKeys

\* What registering an admitted socket does to the registry.
Register(deviceKey, s) == MapSet(connectedControllers, deviceKey, s)

\* Mutant: admission registers the socket without creating its pending table.
MutAdmissionNoTable(s, threw) ==
    LET deviceKey == ws[s].deviceKey IN
    /\ ws[s].pc = "validating"
    /\ IF threw
       THEN /\ log' = Line("validateError", "", <<>>)
            /\ Reject(s, deviceKey, "Error validating device key.")
       ELSE IF ~validateKey(deviceKey)
       THEN /\ UNCHANGED log
            /\ Reject(s, deviceKey, "Invalid device key.")
       ELSE /\ connectedControllers' = Register(deviceKey, s)
            /\ UNCHANGED pendingResponses
            /\ ws' = [ws EXCEPT ![s].pc = "admitted",
                                ![s].isAlive = TRUE,
                                ![s].interval = "running"]
            /\ log' = Line("admitted", deviceKey, <<>>)
            /\ UNCHANGED http

\* server.on("connection"), from the await of validateKey on.  `threw` is the
\* plugin's promise rejecting.
Admission(s, threw) ==
    LET deviceKey == ws[s].deviceKey IN
    /\ ws[s].pc = "validating"
    /\ IF threw
       THEN /\ log' = Line("validateError", "", <<>>)
            /\ Reject(s, deviceKey, "Error validating device key.")
       ELSE IF ~validateKey(deviceKey)
       THEN /\ UNCHANGED log
            /\ Reject(s, deviceKey, "Invalid device key.")
       ELSE /\ connectedControllers' = Register(deviceKey, s)
            /\ pendingResponses' = MapSet(pendingResponses, deviceKey, EmptyMap)
            /\ ws' = [ws EXCEPT ![s].pc = "admitted",
                                ![s].isAlive = TRUE,
                                ![s].interval = "running"]
            /\ log' = Line("admitted", deviceKey, <<>>)
            /\ UNCHANGED http

\* ws.on("pong")
Pong(s) ==
    /\ ws[s].pc = "admitted"
    /\ ws[s].readyState = "open"
    /\ ws' = [ws EXCEPT ![s].isAlive = TRUE, ![s].pingPending = FALSE]
    /\ UNCHANGED <<connectedControllers, pendingResponses, http, log>>

\* Mutant: the timeout branch clears the pending tables of every device.
MutTickTimeoutAllTables(s) ==
    /\ connectedControllers' = MapDelete(connectedControllers, ws[s].deviceKey)
    /\ pendingResponses' = EmptyMap
    /\ ws' = [ws EXCEPT ![s].readyState = Terminate(@),
                        ![s].interval = "cleared"]
    /\ log' = Line("timeout", ws[s].deviceKey, <<>>)
    /\ UNCHANGED http

\* The branch of the interval callback taken when no pong was seen.
TickTimeout(s) ==
    /\ connectedControllers' = MapDelete(connectedControllers, ws[s].deviceKey)
    /\ pendingResponses' = MapDelete(pendingResponses, ws[s].deviceKey)
    /\ ws' = [ws EXCEPT ![s].readyState = Terminate(@),
                        ![s].interval = "cleared"]
    /\ log' = Line("timeout", ws[s].deviceKey, <<>>)
    /\ UNCHANGED http

\* Mutant: the tick pings without clearing the flag.
MutTickPingKeepsFlag(s) ==
    /\ ws' = [ws EXCEPT ![s].pingPending = TRUE]
    /\ UNCHANGED <<connectedControllers, pendingResponses, http, log>>

\* The branch of the interval callback taken when the session is alive.
TickPing(s) ==
    /\ ws' = [ws EXCEPT ![s].isAlive = FALSE, ![s].pingPending = TRUE]
    /\ UNCHANGED <<connectedControllers, pendingResponses, http, log>>

\* The setInterval callback.
Tick(s) ==
    /\ ws[s].interval = "running"
    /\ IF ~ws[s].isAlive THEN TickTimeout(s) ELSE TickPing(s)

\* What the error and close handlers do to the shared tables.
Teardown(s) ==
    /\ connectedControllers' = MapDelete(connectedControllers, ws[s].deviceKey)
    /\ UNCHANGED pendingResponses

\* Mutant: the error handler forgets clearInterval.
MutOnErrorKeepsTicker(s) ==
    /\ ws[s].pc = "admitted"
    /\ ws[s].readyState = "open"
    /\ Teardown(s)
    /\ ws' = [ws EXCEPT ![s].readyState = "closing"]
    /\ log' = Line("errored", ws[s].deviceKey, <<>>)
    /\ UNCHANGED http

\* ws.on("error"); the socket then closes.
OnError(s) ==
    /\ ws[s].pc = "admitted"
    /\ ws[s].readyState = "open"
    /\ Teardown(s)
    /\ ws' = [ws EXCEPT ![s].interval = "cleared", ![s].readyState = "closing"]
    /\ log' = Line("errored", ws[s].deviceKey, <<>>)
    /\ UNCHANGED http

\* Mutant: the close handler also deletes the device's pending table, which
\* the error handler does not.
MutOnCloseDropsTable(s) ==
    /\ ws[s].pc = "admitted"
    /\ ws[s].readyState \in {"open", "closing"}
    /\ connectedControllers' = MapDelete(connectedControllers, ws[s].deviceKey)
    /\ pendingResponses' = MapDelete(pendingResponses, ws[s].deviceKey)
    /\ ws' = [ws EXCEPT ![s].interval = "cleared", ![s].readyState = "closed"]
    /\ log' = Line("disconnected", ws[s].deviceKey, <<>>)
    /\ UNCHANGED http

\* ws.on("close"): the peer closed the socket, or the close event that
\* follows ws.terminate() or an error.  (The handler exists from admission on;
\* the model lets a socket close only after its admission was decided, and a
\* rejected socket has no listeners, so its close event runs no code.)
OnClose(s) ==
    /\ ws[s].pc = "admitted"
    /\ ws[s].readyState \in {"open", "closing"}
    /\ Teardown(s)
    /\ ws' = [ws EXCEPT ![s].interval = "cleared", ![s].readyState = "closed"]
    /\ log' = Line("disconnected", ws[s].deviceKey, <<>>)
    /\ UNCHANGED http

\* ------------------------------------------------------- response frames

\* "RES: " + id + terminator + body, as bytes.
ResFrame(rid, terminator, body) == ResPrefix \o rid \o terminator \o body

\* "REQ: 0000\r\nOK": the prefix is not "RES: ".
BadPrefixFrame == <<82, 69, 81, 58, 32>> \o Hex4(0) \o <<CR, LF>> \o OkBody

\* "RES: zzzz\r\nOK": the id is not four lowercase hex digits.
BadIdFrame == ResFrame(<<122, 122, 122, 122>>, <<CR, LF>>, OkBody)

\* "RES: 00\xff0\r\nOK": a byte that is not UTF-8 inside the header.
BadUtf8HeaderFrame == ResPrefix \o <<48, 48, 255, 48, CR, LF>> \o OkBody

\* "RES: 0000\nOK": the header ends with "\n" alone.
LfFrame == ResFrame(Hex4(0), <<LF>>, OkBody)

\* "RES: <id>\r\n" followed by a body that is not UTF-8.
BadUtf8BodyFrames == { ResFrame(rid, <<CR, LF>>, <<79, 255>>) : rid \in RequestIds }

\* "RES: <id>\r\n<body>"
CrLfFrames == { ResFrame(rid, <<CR, LF>>, b) : rid \in RequestIds, b \in Bodies }

\* The text messages a controller sends in the model.
TextFrames ==
    CrLfFrames \cup BadUtf8BodyFrames
    \cup {LfFrame, BadPrefixFrame, BadIdFrame, BadUtf8HeaderFrame}

\* The messages a controller sends in the model: the text frames, and one
\* binary message holding the bytes of a well-formed response.
Messages ==
    { [isBinary |-> FALSE, data |-> d] : d \in TextFrames }
    \cup { [isBinary |-> TRUE, data |-> ResFrame(Hex4(0), <<CR, LF>>, OkBody)] }

\* "NO"
NoBody == <<78, 79>>

\* The well-formed replies of the reply-matching specification: every id
\* with each of two different bodies.
ReplyMessages ==
    { [isBinary |-> FALSE, data |-> ResFrame(rid, <<CR, LF>>, b)] :
        rid \in RequestIds, b \in {OkBody, NoBody} }

\* Mutant: the isBinary flag is not looked at.
MutDecodeIgnoresBinary(m) ==
    IF ~isValidUTF8(m.data) THEN "utf8"
    ELSE IF ~Matches(m.data) THEN "format"
    ELSE "response"

\* The decoding steps of the message handler that read the message alone:
\* the early return taken, or "response" when the regular expression matches.
Decode(m) ==
    IF m.isBinary THEN "binary"
    ELSE IF ~isValidUTF8(m.data) THEN "utf8"
    ELSE IF ~Matches(m.data) THEN "format"
    ELSE "response"

\* Decode, tabulated over the sampled messages.
Decoded == [m \in Messages \cup ReplyMessages |-> Decode(m)]

\* The early return the message handler takes for a message, or "deliver".
\* The order is the order of the handler's checks.
MessageOutcome(s, m) ==
    IF Decoded[m] # "response" THEN Decoded[m]
    ELSE IF ~Has(pendingResponses, ws[s].deviceKey) THEN "nodevice"
    ELSE IF ~Has(pendingResponses[ws[s].deviceKey], MatchRequestKey(m.data))
    THEN "unknownid"
    ELSE "deliver"

\* Mutant: the delivered entry is left in the table.
MutDeliverKeepsEntry(deviceResponses, requestKey) == deviceResponses

\* deviceResponses.delete(requestKey) of the message handler.
DeliverTable(deviceResponses, requestKey) == MapDelete(deviceResponses, requestKey)

\* ws.on("message")
OnMessage(s, m) ==
    LET deviceKey == ws[s].deviceKey
        outcome == MessageOutcome(s, m)
        requestKey == MatchRequestKey(m.data)
    IN
    /\ ws[s].pc = "admitted"
    /\ ws[s].readyState = "open"
    /\ IF outcome # "deliver"
       THEN /\ log' = Line(outcome, deviceKey,
                             IF outcome = "unknownid" THEN requestKey ELSE <<>>)
            /\ UNCHANGED <<connectedControllers, pendingResponses, ws, http>>
       ELSE LET res == pendingResponses[deviceKey][requestKey] IN
            /\ log' = Line("received", deviceKey, requestKey)
            /\ pendingResponses' =
                 [pendingResponses EXCEPT
                    ![deviceKey] = DeliverTable(@, requestKey)]
            /\ http' = [http EXCEPT ![res].written = Append(@, MatchBody(m.data)),
                                    ![res].ended = TRUE]
            /\ UNCHANGED <<connectedControllers, ws>>

\* ------------------------------------------------------------ the forwarder

NoKeyMessage == "No device key was specified or an invalid format was used."
NotConnectedMessage == "Specified device does not exist or is not connected."

\* Mutant: res.json({message}) without res.status(code).
MutJsonNoStatus(h, deviceKey, code, message) ==
    /\ http' = [http EXCEPT ![h].pc = "answered", ![h].deviceKey = deviceKey,
                            ![h].status = 200, ![h].message = message,
                            ![h].ended = TRUE]
    /\ UNCHANGED <<connectedControllers, pendingResponses, ws>>

\* res.status(code).json({message}): the response is sent and finished.
Json(h, deviceKey, code, message) ==
    /\ http' = [http EXCEPT ![h].pc = "answered", ![h].deviceKey = deviceKey,
                            ![h].status = code, ![h].message = message,
                            ![h].ended = TRUE]
    /\ UNCHANGED <<connectedControllers, pendingResponses, ws>>

\* Mutant: the response is parked under another id than the frame carries.
MutParkFirstId(deviceResponses, requestId, h) ==
    MapSet(deviceResponses, Hex4(0), h)

\* deviceResponses.set(requestId, {res, logger}) of forwardRequest.
Park(deviceResponses, requestId, h) == MapSet(deviceResponses, requestId, h)

\* forwardRequest; n is the value of Math.floor(Math.random() * 0x10000).
forwardRequest(h, deviceKey, n) ==
    LET requestId == Hex4(n) IN
    /\ http[h].pc = "new"
    /\ \A h0 \in AllReqs : h0 < h => http[h0].pc # "new"  \* requests numbered by arrival
    /\ IF deviceKey = ""
       THEN /\ Json(h, deviceKey, 401, NoKeyMessage)
            /\ UNCHANGED log
       ELSE IF ~Has(connectedControllers, deviceKey)
       THEN /\ Json(h, deviceKey, 404, NotConnectedMessage)
            /\ UNCHANGED log
       ELSE IF ~Has(pendingResponses, deviceKey)
       THEN /\ Json(h, deviceKey, 404, NotConnectedMessage)
            /\ log' = Line("forwarding", deviceKey, requestId)
       ELSE /\ log' = Line("forwarding", deviceKey, requestId)
            /\ pendingResponses' =
                 [pendingResponses EXCEPT ![deviceKey] = Park(@, requestId, h)]
            /\ http' = [http EXCEPT ![h].pc = "parked",
                                    ![h].deviceKey = deviceKey,
                                    ![h].requestId = requestId]
            /\ ws' = [ws EXCEPT ![connectedControllers[deviceKey]].sent =
                        Append(@, [prefix |-> "FWD: ", rid |-> requestId, req |-> h])]
            /\ UNCHANGED connectedControllers

\* Mutant: the close handler deletes nothing.
MutDropNothing(deviceResponses, requestId) == deviceResponses

\* deviceResponses.delete(requestId) of the request's close handler.
DropEntry(deviceResponses, requestId) == MapDelete(deviceResponses, requestId)

\* req.on("close") of a forwarded request.
OnReqClose(h) ==
    LET deviceKey == http[h].deviceKey IN
    /\ http[h].pc = "parked"
    /\ ~http[h].closed
    /\ pendingResponses' =
         IF Has(pendingResponses, deviceKey)
         THEN [pendingResponses EXCEPT
                 ![deviceKey] = DropEntry(@, http[h].requestId)]
         ELSE pendingResponses
    /\ http' = [http EXCEPT ![h].closed = TRUE]
    /\ UNCHANGED <<connectedControllers, ws, log>>

\* ------------------------------------------------------------ specification

\* NumSocks controller sockets and NumReqs forwarded requests.
Next ==
    \/ \E s \in Socks, c \in Connects : Connection(s, c[1], c[2])
    \/ \E s \in Socks, threw \in BOOLEAN : Admission(s, threw)
    \/ \E s \in Socks : Pong(s)
    \/ \E s \in Socks : Tick(s)
    \/ \E s \in Socks : OnError(s)
    \/ \E s \in Socks : OnClose(s)
    \/ \E s \in Socks, m \in Messages : OnMessage(s, m)
    \/ \E h \in Reqs, k \in ForwardKeys, n \in 0..(IdSpace - 1) :
          forwardRequest(h, k, n)
    \/ \E h \in Reqs : OnReqClose(h)

Spec == Init /\ [][Next]_vars

\* One controller with a valid key, and one forwarded request more than the
\* id space holds.
NextSaturate ==
    \/ Connection(1, "/socket/v1", "k1")
    \/ Admission(1, FALSE)
    \/ Pong(1)
    \/ Tick(1)
    \/ OnError(1)
    \/ OnClose(1)
    \/ \E m \in Messages : OnMessage(1, m)
    \/ \E h \in SatReqs, n \in 0..(IdSpace - 1) : forwardRequest(h, "k1", n)
    \/ \E h \in SatReqs : OnReqClose(h)

SpecSaturate == Init /\ [][NextSaturate]_vars

\* One controller with a valid key, whose replies are well formed and carry
\* one of two different bodies.
NextReplies ==
    \/ Connection(1, "/socket/v1", "k1")
    \/ Admission(1, FALSE)
    \/ \E m \in ReplyMessages : OnMessage(1, m)
    \/ \E h \in Reqs, n \in 0..(IdSpace - 1) : forwardRequest(h, "k1", n)
    \/ \E h \in Reqs : OnReqClose(h)

SpecReplies == Init /\ [][NextReplies]_vars

\* The messages of the two-device specification: a well-formed reply for
\* every id, and a frame with a malformed id.
DeviceMessages ==
    { [isBinary |-> FALSE, data |-> ResFrame(rid, <<CR, LF>>, OkBody)] :
        rid \in RequestIds }
    \cup { [isBinary |-> FALSE, data |-> BadIdFrame] }

\* Two controllers, each connecting under either of two valid keys, and
\* forwards addressed to either key.
NextDevices ==
    \/ \E s \in Socks, k \in ValidKeys : Connection(s, "/socket/v1", k)
    \/ \E s \in Socks : Admission(s, FALSE)
    \/ \E s \in Socks : Pong(s)
    \/ \E s \in Socks : Tick(s)
    \/ \E s \in Socks : OnError(s)
    \/ \E s \in Socks : OnClose(s)
    \/ \E s \in Socks, m \in DeviceMessages : OnMessage(s, m)
    \/ \E h \in Reqs, k \in ValidKeys, n \in 0..(IdSpace - 1) :
          forwardRequest(h, k, n)
    \/ \E h \in Reqs : OnReqClose(h)

SpecDevices == Init /\ [][NextDevices]_vars

\* ------------------------------------------------------ claim vocabulary

\* Request h is an entry of some pending table.
InTable(h) ==
    \E k \in DOMAIN pendingResponses :
        \E r \in DOMAIN pendingResponses[k] : pendingResponses[k][r] = h

\* The forward frame of request h was sent on socket s.
ForwardedOn(h, s) ==
    \E i \in 1..Len(ws[s].sent) :
        ws[s].sent[i].prefix = "FWD: " /\ ws[s].sent[i].req = h

\* Socket s is the registry's entry for some key.
Registered(s) ==
    \E k \in DOMAIN connectedControllers : connectedControllers[k] = s

\* The session of socket s was admitted and has been torn down since (every
\* teardown path clears the interval, and nothing else does).
TornDown(s) == ws[s].pc = "admitted" /\ ws[s].interval = "cleared"

\* The response of request h was parked by forwardRequest.
Parked(h) == http[h].pc = "parked"

\* The parked response of h is resolved: its stream was closed by the gateway,
\* or its client disconnected.
Resolved(h) == http[h].ended \/ http[h].closed

\* ------------------------------------------------------------------ claims

\* C1: every parked response is resolved exactly once.  Stated on finite
\* runs: a response is written at most once, and a response whose session has
\* been torn down does not stay parked unresolved (teardown is one handler, so
\* it would have to resolve the response in the step that tears down).
C1_ResolvedExactlyOnce ==
    \A h \in AllReqs :
        Parked(h) =>
            /\ Len(http[h].written) <= 1
            /\ \A s \in Socks : ForwardedOn(h, s) /\ TornDown(s) => Resolved(h)

\* C2: a teardown step of a session (close, error or liveness timeout)
\* answers every entry that is in the device's pending table at that moment
\* with HTTP 502, closes its stream, and removes it from the table.
C2_TeardownAnswers502 ==
    [][ \A s \in Socks :
          (~TornDown(s) /\ TornDown(s)' /\ Has(pendingResponses, ws[s].deviceKey))
          => \A r \in DOMAIN pendingResponses[ws[s].deviceKey] :
               LET h == pendingResponses[ws[s].deviceKey][r] IN
               /\ http'[h].status = 502
               /\ http'[h].ended
               /\ ~InTable(h)' ]_vars

\* C3: at no instant are two admitted, open sessions serving the same device
\* key; of two connections racing through admission one is rejected.
C3_OneSessionPerKey ==
    \A s1, s2 \in Socks :
        ( /\ s1 # s2
          /\ ws[s1].pc = "admitted" /\ ws[s1].readyState = "open"
          /\ ws[s2].pc = "admitted" /\ ws[s2].readyState = "open" )
        => ws[s1].deviceKey # ws[s2].deviceKey

\* C4: a parked response is written by at most one response frame, and once
\* it is written its entry is in no pending table, so a further frame with the
\* same id finds nothing to write to.
C4_WrittenAtMostOnce ==
    \A h \in AllReqs :
        /\ Len(http[h].written) <= 1
        /\ http[h].written # <<>> => ~InTable(h)

\* C4 witness: the only request forwarded so far was delivered, and a later
\* frame carrying its id was logged as an unknown id.
C4_DuplicateFrameMissed ==
    \E h \in AllReqs :
        /\ Len(http[h].written) = 1
        /\ \A h2 \in AllReqs \ {h} : http[h2].pc = "new"
        /\ log = Line("unknownid", http[h].deviceKey, http[h].requestId)

\* C5: once the client of a parked request has disconnected, the request is
\* an entry of no pending table and its response is never written: neither by
\* the close handler itself nor by any later response frame.
C5_DisconnectDropsEntry ==
    [][ \A h \in AllReqs :
          /\ (http[h].closed \/ http'[h].closed)
                => http'[h].written = http[h].written
          /\ http'[h].closed => ~InTable(h)' ]_vars

\* C5 witness: one controller, one request; the client disconnected before
\* any reply and a response frame with the request's id was then discarded.
C5_LateReplyDiscarded ==
    /\ ws[1].pc = "admitted" /\ ws[1].readyState = "open"
    /\ \A s \in Socks \ {1} : ws[s].pc = "new"
    /\ Parked(1) /\ http[1].closed /\ http[1].written = <<>>
    /\ \A h \in AllReqs \ {1} : http[h].pc = "new"
    /\ log = Line("unknownid", http[1].deviceKey, http[1].requestId)

\* The messages C6 is about, on socket s: binary ones, the three malformed
\* text frames, and well-formed frames whose id is not pending for s's device.
C6_Discardable(s, m) ==
    \/ m.isBinary
    \/ m.data \in {BadPrefixFrame, BadIdFrame, BadUtf8HeaderFrame}
    \/ \E rid \in RequestIds, b \in Bodies :
          /\ ~m.isBinary
          /\ m.data = ResFrame(rid, <<CR, LF>>, b)
          /\ ~( /\ Has(pendingResponses, ws[s].deviceKey)
                /\ Has(pendingResponses[ws[s].deviceKey], rid) )

\* C6: receiving such a message changes neither the registry, nor a pending
\* table, nor a socket's fields (the liveness flag among them), nor an HTTP
\* response.
C6_BadFrameChangesNothing ==
    [][ \A s \in Socks : \A m \in Messages :
          (C6_Discardable(s, m) /\ OnMessage(s, m))
          => UNCHANGED <<connectedControllers, pendingResponses, ws, http>> ]_vars

\* C6 witness: a message was just discarded on a device that has a request
\* in flight, and the request is still pending on the open session.
C6_DiscardWithRequestInFlight ==
    \E h \in AllReqs : \E s \in Socks :
        /\ Parked(h) /\ InTable(h) /\ ~Resolved(h)
        /\ ForwardedOn(h, s) /\ ws[s].readyState = "open"
        /\ log.line \in {"binary", "utf8", "format", "unknownid"}
        /\ log.deviceKey = http[h].deviceKey

\* C7: the liveness state machine.  A tick that finds the flag set clears it,
\* pings, and evicts nothing; a pong sets the flag; a tick that finds the flag
\* cleared takes the session out of the registry, terminates the socket and
\* stops the ticker.
C7_LivenessMachine ==
    [][ \A s \in Socks :
          /\ (Tick(s) /\ ws[s].isAlive)
                => /\ ~ws'[s].isAlive
                   /\ ws'[s].pingPending
                   /\ ws'[s].interval = "running"
                   /\ ws'[s].readyState = ws[s].readyState
                   /\ UNCHANGED <<connectedControllers, pendingResponses>>
          /\ (Tick(s) /\ ~ws[s].isAlive)
                => /\ ~Registered(s)'
                   /\ ~Has(connectedControllers', ws[s].deviceKey)
                   /\ ws'[s].readyState # "open"
                   /\ ws'[s].interval = "cleared"
          /\ Pong(s) => ws'[s].isAlive ]_vars

\* C7 witness: a session was just evicted by its ticker.
C7_EvictedByTicker ==
    \E s \in Socks :
        /\ log = Line("timeout", ws[s].deviceKey, <<>>)
        /\ TornDown(s) /\ ~ws[s].isAlive /\ ws[s].pingPending
        /\ ws[s].readyState = "closing"
        /\ ~Registered(s)

\* C8: a connection that fails an admission step is sent one "ERR: " frame
\* and terminated, is not registered, gets no ticker, and leaves the registry
\* and every pending table as they were; a rejected socket stays that way.
C8_AdmissionFailure ==
    [][ \A s \in Socks :
          LET failsConnection ==
                \E c \in Connects :
                    /\ Connection(s, c[1], c[2])
                    /\ \/ c[1] # "/socket/v1"
                       \/ c[2] = ""
                       \/ Has(connectedControllers, c[2])
              failsValidation ==
                \E threw \in BOOLEAN :
                    /\ Admission(s, threw)
                    /\ (threw \/ ws[s].deviceKey \notin ValidKeys)
          IN
          /\ (failsConnection \/ failsValidation)
                => /\ ws'[s].pc = "rejected"
                   /\ UNCHANGED <<connectedControllers, pendingResponses>>
          /\ ws'[s].pc = "rejected"
                => /\ Len(ws'[s].sent) = 1
                   /\ ws'[s].sent[1].prefix = "ERR: "
                   /\ ws'[s].readyState # "open"
                   /\ ws'[s].interval = "none"
                   /\ ~Registered(s)' ]_vars

\* C8 witness: a connection was just rejected for a key whose incumbent
\* session is registered with a request pending.
C8_RejectedBesideIncumbent ==
    \E s, s2 \in Socks :
        /\ ws[s].pc = "rejected"
        /\ ws[s].sent[1].text
             = "A controller with this device key is already connected."
        /\ Has(connectedControllers, ws[s].deviceKey)
        /\ connectedControllers[ws[s].deviceKey] = s2
        /\ Has(pendingResponses, ws[s].deviceKey)
        /\ pendingResponses[ws[s].deviceKey] # EmptyMap
        /\ log = Line("connected", "", <<>>)

\* C9: a forward whose device key is not in the registry is answered 404 with
\* the not-connected message; no frame is sent and no pending table changes.
C9_NotConnected404 ==
    [][ \A h \in AllReqs : \A k \in ForwardKeys \ {""} :
          \A n \in 0..(IdSpace - 1) :
            (forwardRequest(h, k, n) /\ ~Has(connectedControllers, k))
            => /\ http'[h].status = 404
               /\ http'[h].message = NotConnectedMessage
               /\ http'[h].ended
               /\ UNCHANGED <<connectedControllers, pendingResponses, ws>> ]_vars

\* C9 witness: a forward for k1 was answered 404 while k1 has no session.
C9_Answered404 ==
    \E h \in AllReqs :
        /\ http[h].pc = "answered" /\ http[h].deviceKey = "k1"
        /\ http[h].status = 404
        /\ ~Has(connectedControllers, "k1")

\* C10: a forward that finds every request id of the id space in use in the
\* device's pending table is answered 503, overwrites no entry and sends no
\* forward frame.
C10_Saturated503 ==
    [][ \A h \in AllReqs : \A n \in 0..(IdSpace - 1) :
          ( /\ forwardRequest(h, "k1", n)
            /\ Has(connectedControllers, "k1")
            /\ Has(pendingResponses, "k1")
            /\ DOMAIN pendingResponses["k1"] = RequestIds )
          => /\ http'[h].status = 503
             /\ UNCHANGED <<pendingResponses, ws>> ]_vars

\* C11: replies are matched by request id.  A well-formed reply carrying
\* id rid and body b, received while rid is pending, writes exactly b to the
\* response parked under rid and leaves every other response as it was,
\* whatever the order in which the requests were forwarded.
C11_MatchedById ==
    [][ \A rid \in RequestIds : \A b \in {OkBody, NoBody} :
          LET m == [isBinary |-> FALSE, data |-> ResFrame(rid, <<CR, LF>>, b)] IN
          ( /\ OnMessage(1, m)
            /\ Has(pendingResponses, "k1")
            /\ Has(pendingResponses["k1"], rid) )
          => LET h == pendingResponses["k1"][rid] IN
             /\ http[h].requestId = rid
             /\ http'[h].written = <<b>>
             /\ \A h2 \in AllReqs \ {h} : http'[h2] = http[h2] ]_vars

\* C11 witness: two requests were forwarded under different ids and answered
\* in the opposite order with different bodies; the reply to the first
\* request came last, and each response holds the body sent for its id.
C11_AnsweredInOppositeOrder ==
    /\ Parked(1) /\ Parked(2)
    /\ http[1].requestId # http[2].requestId
    /\ ~http[1].closed /\ ~http[2].closed
    /\ http[1].written = <<NoBody>>
    /\ http[2].written = <<OkBody>>
    /\ log = Line("received", "k1", http[1].requestId)

\* C12: a text frame "RES: " + four lowercase hex digits + "\n" + body whose
\* id is pending is accepted: the body after the single "\n" is written to
\* the parked response, which is then closed.  Stated for "RES: 0000\nOK".
C12_SingleNewlineAccepted ==
    [][ \A s \in Socks :
          LET m == [isBinary |-> FALSE, data |-> LfFrame]
              deviceKey == ws[s].deviceKey
          IN
          ( /\ OnMessage(s, m)
            /\ Has(pendingResponses, deviceKey)
            /\ Has(pendingResponses[deviceKey], Hex4(0)) )
          => LET h == pendingResponses[deviceKey][Hex4(0)] IN
             /\ http'[h].written = <<OkBody>>
             /\ http'[h].ended ]_vars

\* The events of device key k that C13 lists: a message, close, error or tick
\* on a session admitted under k, a forward addressed to k, and the client
\* disconnect of a request forwarded to k.
C13_EventOf(k) ==
    \/ \E s \in Socks :
          /\ ws[s].deviceKey = k
          /\ \/ Tick(s) \/ OnError(s) \/ OnClose(s)
             \/ \E m \in DeviceMessages : OnMessage(s, m)
    \/ \E h \in Reqs, n \in 0..(IdSpace - 1) : forwardRequest(h, k, n)
    \/ \E h \in Reqs : http[h].deviceKey = k /\ OnReqClose(h)

\* C13: devices are isolated.  An event of device key k changes neither the
\* registry entry nor the pending table of another key k2, and writes to no
\* response parked for k2.
C13_DevicesIsolated ==
    [][ \A k \in ValidKeys : \A k2 \in ValidKeys \ {k} :
          C13_EventOf(k)
          => /\ Has(connectedControllers', k2) = Has(connectedControllers, k2)
             /\ Has(connectedControllers, k2)
                  => connectedControllers'[k2] = connectedControllers[k2]
             /\ Has(pendingResponses', k2) = Has(pendingResponses, k2)
             /\ Has(pendingResponses, k2)
                  => pendingResponses'[k2] = pendingResponses[k2]
             /\ \A h \in Reqs :
                  (Parked(h) /\ http[h].deviceKey = k2) => http'[h] = http[h] ]_vars

\* C13 witness: both devices had a request pending under the same id; the
\* reply of k1's controller was delivered to k1's request, and the request
\* of k2 is still pending under that id, unwritten, on k2's session.
C13_SameIdOnTwoDevices ==
    \E h1, h2 \in Reqs :
        /\ http[h1].deviceKey = "k1" /\ http[h2].deviceKey = "k2"
        /\ Parked(h1) /\ Parked(h2)
        /\ http[h1].requestId = http[h2].requestId
        /\ http[h1].written = <<OkBody>>
        /\ log = Line("received", "k1", http[h1].requestId)
        /\ http[h2].written = <<>> /\ ~http[h2].closed
        /\ Has(connectedControllers, "k2")
        /\ Has(pendingResponses, "k2")
        /\ Has(pendingResponses["k2"], http[h2].requestId)
        /\ pendingResponses["k2"][http[h2].requestId] = h2

\* The requests of the forward frames in a socket's sent sequence, in order.
C14_ForwardsOf(sent) ==
    LET IsFwd(f) == f.prefix = "FWD: " IN
    [i \in 1..Len(SelectSeq(sent, IsFwd)) |-> SelectSeq(sent, IsFwd)[i].req]

\* C14: a forward that passes the key and lookup checks sends exactly one
\* forward frame, on the device's registered socket, carrying the id under
\* which its response is parked, and emits no response bytes; on every
\* socket the forward frames are in the order the forwards were accepted; and
\* a parked response is written or ended only by a message of a controller.
C14_ForwardFrames ==
    [][ /\ \A h \in AllReqs : \A k \in ForwardKeys \ {""} :
           \A n \in 0..(IdSpace - 1) :
             ( /\ forwardRequest(h, k, n)
               /\ Has(connectedControllers, k)
               /\ Has(pendingResponses, k) )
             => LET s == connectedControllers[k]
                    f == ws'[s].sent[Len(ws'[s].sent)]
                IN
                /\ Len(ws'[s].sent) = Len(ws[s].sent) + 1
                /\ SubSeq(ws'[s].sent, 1, Len(ws[s].sent)) = ws[s].sent
                /\ f.prefix = "FWD: " /\ f.req = h
                /\ Has(pendingResponses'[k], f.rid)
                /\ pendingResponses'[k][f.rid] = h
                /\ \A s2 \in Socks \ {s} : ws'[s2] = ws[s2]
                /\ http'[h].written = <<>> /\ ~http'[h].ended
                /\ http'[h].status = 0
        /\ \A s \in Socks :
             LET reqs == C14_ForwardsOf(ws'[s].sent) IN
             /\ \A i, j \in 1..Len(reqs) : i < j => reqs[i] < reqs[j]
             /\ \A i \in 1..Len(reqs) :
                  /\ http'[reqs[i]].pc = "parked"
                  /\ http'[reqs[i]].deviceKey = ws'[s].deviceKey
        /\ \A h \in AllReqs :
             (Parked(h) /\ ( \/ http'[h].written # http[h].written
                             \/ http'[h].ended # http[h].ended
                             \/ http'[h].status # http[h].status ))
             => \E s \in Socks, m \in Messages : OnMessage(s, m) ]_vars

\* C14 witness: two forwards were accepted for k1 and both frames are on its
\* socket in acceptance order, with neither response written.
C14_TwoFramesInOrder ==
    \E s \in Socks :
        /\ C14_ForwardsOf(ws[s].sent) = <<1, 2>>
        /\ ws[s].sent[1].rid # ws[s].sent[2].rid
        /\ \A h \in {1, 2} :
             /\ Parked(h) /\ InTable(h)
             /\ http[h].written = <<>> /\ ~http[h].ended

\* C15: the request id forwardRequest chooses is not a key of the target
\* device's pending table at the moment of insertion, so inserting replaces
\* no entry.
C15_FreshRequestId ==
    [][ \A h \in AllReqs : \A k \in ForwardKeys \ {""} :
          \A n \in 0..(IdSpace - 1) :
            ( /\ forwardRequest(h, k, n)
              /\ http'[h].pc = "parked" )
            => /\ ~Has(pendingResponses[k], http'[h].requestId)
               /\ \A h2 \in AllReqs \ {h} : InTable(h2) => InTable(h2)' ]_vars

\* The forward frame of request h was sent on socket s and carried id rid.
C16_ForwardedWithId(h, s, rid) ==
    \E i \in 1..Len(ws[s].sent) :
        /\ ws[s].sent[i].prefix = "FWD: "
        /\ ws[s].sent[i].req = h
        /\ ws[s].sent[i].rid = rid

\* C16: no misdelivery.  When a response frame received on socket s writes a
\* body to the response of request h, the frame answers h's forward: that
\* forward was sent on s with the frame's id, and no other request whose
\* forward went to s with the same id is still waiting for its reply.
C16_NoMisdelivery ==
    [][ \A s \in Socks : \A m \in Messages : \A h \in AllReqs :
          (OnMessage(s, m) /\ http'[h].written # http[h].written)
          => LET rid == MatchRequestKey(m.data) IN
             /\ C16_ForwardedWithId(h, s, rid)
             /\ \A h2 \in AllReqs \ {h} :
                  ~( /\ C16_ForwardedWithId(h2, s, rid)
                     /\ http[h2].written = <<>>
                     /\ ~http[h2].closed ) ]_vars

\* C17: the close and error handlers of a socket remove the registry entry
\* of its device key only if that entry is the socket itself; when the
\* registry holds another session under the key, it is left as it is.
C17_TeardownSameInstanceOnly ==
    [][ \A s \in Socks :
          ( /\ (OnClose(s) \/ OnError(s))
            /\ Has(connectedControllers, ws[s].deviceKey)
            /\ connectedControllers[ws[s].deviceKey] # s )
          => connectedControllers' = connectedControllers ]_vars

\* C18: a device key that is not in the registry has no entry in a pending
\* table.
C18_NoPendingWithoutSession ==
    \A k \in DOMAIN pendingResponses :
        ~Has(connectedControllers, k) => pendingResponses[k] = EmptyMap

\* C19: the close handler of request h removes no pending entry of another
\* request.
C19_CloseRemovesOwnEntryOnly ==
    [][ \A h \in AllReqs :
          OnReqClose(h)
          => \A h2 \in AllReqs \ {h} : InTable(h2) => InTable(h2)' ]_vars

\* C20: a response frame received on socket s writes only to the response
\* of a request whose forward frame was sent on s.
C20_ResolvesOwnSocketOnly ==
    [][ \A s \in Socks : \A m \in Messages : \A h \in AllReqs :
          (OnMessage(s, m) /\ http'[h].written # http[h].written)
          => ForwardedOn(h, s) ]_vars

\* C21: teardown is idempotent.  When the close handler of a socket runs
\* right after the error handler or the liveness eviction of that device's
\* session (the last line logged is theirs, so no connection, admission,
\* forward or message came in between), it changes neither the registry, nor
\* a pending table, nor the socket's ticker, nor any HTTP response.
C21_TeardownIdempotent ==
    [][ \A s \in Socks :
          ( /\ OnClose(s)
            /\ TornDown(s)
            /\ log.deviceKey = ws[s].deviceKey
            /\ log.line \in {"errored", "timeout"} )
          => /\ UNCHANGED <<connectedControllers, pendingResponses, http>>
             /\ ws'[s].interval = ws[s].interval ]_vars

\* C21 witness: the only session was evicted by its ticker while a request
\* was parked (only the eviction deletes a pending table), and the close
\* event of its socket has run since.
C21_ClosedAfterEviction ==
    /\ ws[1].pc = "admitted" /\ ws[1].readyState = "closed"
    /\ \A s \in Socks \ {1} : ws[s].pc = "new"
    /\ ~Has(pendingResponses, ws[1].deviceKey)
    /\ ~Has(connectedControllers, ws[1].deviceKey)
    /\ ws[1].interval = "cleared"
    /\ \E h \in Reqs : Parked(h) /\ ForwardedOn(h, 1) /\ ~Resolved(h)
    /\ log = Line("disconnected", ws[1].deviceKey, <<>>)

\* C22: UTF-8 validation applies to the header only.  A text frame
\* "RES: <id>\r\n" + body whose id is pending and whose body holds a byte
\* that is not valid UTF-8 is accepted, and the body is written to the
\* parked response.
C22_BodyNotValidated ==
    [][ \A s \in Socks : \A rid \in RequestIds :
          LET body == <<79, 255>>
              m == [isBinary |-> FALSE, data |-> ResFrame(rid, <<CR, LF>>, body)]
              deviceKey == ws[s].deviceKey
          IN
          ( /\ OnMessage(s, m)
            /\ Has(pendingResponses, deviceKey)
            /\ Has(pendingResponses[deviceKey], rid) )
          => LET h == pendingResponses[deviceKey][rid] IN
             /\ http'[h].written = <<body>>
             /\ http'[h].ended ]_vars

\* C23: one liveness ticker per admitted session.  The ticker is started by
\* a successful admission and by nothing else; the error handler, the close
\* handler and the eviction each stop it; once stopped it stays stopped, and
\* the socket gets no further ping and no further tick; a socket that is not
\* admitted has no ticker.
C23_OneTickerPerSession ==
    [][ \A s \in Socks :
          /\ (ws[s].interval # "running" /\ ws'[s].interval = "running")
                => /\ ws[s].interval = "none"
                   /\ ws[s].pc = "validating" /\ ws'[s].pc = "admitted"
          /\ (ws[s].pc = "validating" /\ ws'[s].pc = "admitted")
                => ws'[s].interval = "running"
          /\ (OnError(s) \/ OnClose(s) \/ (Tick(s) /\ ~ws[s].isAlive))
                => ws'[s].interval = "cleared"
          /\ ws[s].interval = "cleared"
                => /\ ws'[s].interval = "cleared"
                   /\ ws'[s].pingPending => ws[s].pingPending
                   /\ ~Tick(s)
          /\ ws'[s].pc # "admitted" => ws'[s].interval = "none" ]_vars

\* C23 witness: the session of socket 1 was torn down by its error handler,
\* its ticker is stopped, and another session has been admitted since with a
\* ticker of its own.
C23_StoppedTickerBesideRunning ==
    /\ ws[1].pc = "admitted" /\ ws[1].interval = "cleared"
    /\ ws[1].readyState = "closing" /\ ws[1].isAlive
    /\ ws[2].pc = "admitted" /\ ws[2].interval = "running"
    /\ Registered(2)
    /\ log = Line("admitted", ws[2].deviceKey, <<>>)

\* C24: every device key in the registry has a pending table, so a forward
\* that finds its key in the registry never takes the second 404 branch: it
\* is parked.
C24_RegistryHasTable ==
    [][ /\ DOMAIN connectedControllers' \subseteq DOMAIN pendingResponses'
        /\ \A h \in AllReqs : \A k \in ForwardKeys \ {""} :
           \A n \in 0..(IdSpace - 1) :
             (forwardRequest(h, k, n) /\ Has(connectedControllers, k))
             => /\ http'[h].pc = "parked"
                /\ http'[h].status = 0 ]_vars

\* C24 witness: the session of socket 1 was evicted by its ticker, which
\* deleted the key's pending table; socket 2 was admitted under the key
\* afterwards, and a forward found both the registry entry and a table.
C24_ParkedAfterEvictionAndReadmission ==
    /\ ws[1].pc = "admitted" /\ ws[1].interval = "cleared" /\ ~ws[1].isAlive
    /\ ws[2].pc = "admitted" /\ ws[2].deviceKey = ws[1].deviceKey
    /\ Registered(2)
    /\ Has(pendingResponses, ws[2].deviceKey)
    /\ ws[1].sent = <<>>
    /\ \E h \in Reqs : Parked(h) /\ ForwardedOn(h, 2) /\ InTable(h)
    /\ log.line = "forwarding"

=============================================================================
